---- MODULE Spec2Model ----
(***************************************************************************)
(* Ephemeral task lifecycle of the momentary calculator.                   *)
(*                                                                         *)
(* Two implementations of the same lifecycle are modelled side by side:    *)
(*   variant = "node"  examples/momentary-calculator/calculator.ts         *)
(*   variant = "web"   examples/momentary-calculator-web/src/calculator.ts *)
(* They differ in dissolve() (guard, DOM cleanup, what is handed to the    *)
(* sweeper) and in the constructor (the node one freezes the intent).      *)
(*                                                                         *)
(* JavaScript runs each synchronous stretch of code atomically, so every   *)
(* action below is one such stretch: the part of an async function up to   *)
(* its first await, or the continuation after it.                          *)
(*                                                                         *)
(* Numbers are exact rationals [n, d]; floating point rounding error is    *)
(* outside the model.                                                      *)
(***************************************************************************)
EXTENDS Integers, Sequences, FiniteSets, TLC

(* ---------------------------------------------------------------- bounds *)
MaxCalls == 2
MaxDissolves == 1
MaxTime == 1
MaxAccesses == 2
MaxLen == 3
MaxOperand == 2
MaxRecords == 2
MaxListeners == 2
MaxCleanups == 2
MaxManifests == 3

(* ------------------------------------------------------ program constants *)
DEFAULT_MAX_LIFETIME == 30000

InstIds == {1, 2}
MainInsts == {1}
CallIds == 1..MaxCalls
\* Slot 0 holds the dissolve() the timer callback makes, 1.. the caller's.
DissolveIds == 0..MaxDissolves

(* ---------------------------------------------------------------- values *)
Null == [tag |-> "null"]
Undefined == [tag |-> "undefined"]
Infinite == [tag |-> "infinity"]
Str(s) == [tag |-> "str", s |-> s]
Num(n, d) == [tag |-> "num", n |-> n, d |-> d]
Arr(items) == [tag |-> "arr", items |-> items]
Prefs(has, p) == [tag |-> "prefs", hasPrecision |-> has, precision |-> p]
EmptyPrefs == Prefs(FALSE, 0)
\* A preferences record that also carries a roundingMode.
PrefsWith(has, p, mode) ==
  [tag |-> "prefs", hasPrecision |-> has, precision |-> p, roundingMode |-> mode]
Msg(text, arg) == [text |-> text, arg |-> arg]
NoMsg == Msg("", "")

Abs(x) == IF x < 0 THEN -x ELSE x

RECURSIVE Gcd(_, _)
Gcd(a, b) == IF b = 0 THEN a ELSE Gcd(b, a % b)

Norm(n, d) ==
  LET s == IF d < 0 THEN -1 ELSE 1
      g == Gcd(Abs(n), Abs(d))
  IN  Num((s * n) \div g, (s * d) \div g)

RECURSIVE Pow10(_)
Pow10(p) == IF p = 0 THEN 1 ELSE 10 * Pow10(p - 1)

\* Math.round: the nearest integer, a tie going towards +Infinity.
MathRound(n, d) == (2 * n + d) \div (2 * d)

(* --------------------------------------------------- operation registry *)
Returned(v) == [threw |-> FALSE, value |-> v, error |-> NoMsg]
Thrown(m) == [threw |-> TRUE, value |-> Undefined, error |-> m]

\* operands.reduce(...) without an initial value, on an empty array.
EmptyReduce == Thrown(Msg("Reduce of empty array with no initial value", ""))

\* The reducers, applied from index k on to the accumulator so far.
RECURSIVE SumFrom(_, _, _)
SumFrom(operands, k, sum) ==
  IF k > Len(operands) THEN sum ELSE SumFrom(operands, k + 1, sum + operands[k])

RECURSIVE DifferenceFrom(_, _, _)
DifferenceFrom(operands, k, diff) ==
  IF k > Len(operands) THEN diff
  ELSE DifferenceFrom(operands, k + 1, diff - operands[k])

RECURSIVE ProductFrom(_, _, _)
ProductFrom(operands, k, product) ==
  IF k > Len(operands) THEN product
  ELSE ProductFrom(operands, k + 1, product * operands[k])

\* Variant for mutation checks: the sum seeded as the product is.
performAdditionSeededOne(operands, preferences) ==
  Returned(Num(SumFrom(operands, 1, 1), 1))

\* operands.reduce((sum, value) => sum + value, 0)
performAddition(operands, preferences) == Returned(Num(SumFrom(operands, 1, 0), 1))

\* Variant for mutation checks: the difference folded from the right.
RECURSIVE DifferenceRight(_, _)
DifferenceRight(operands, k) ==
  IF k = Len(operands) THEN operands[k]
  ELSE operands[k] - DifferenceRight(operands, k + 1)

performSubtractionRight(operands, preferences) ==
  IF operands = <<>> THEN EmptyReduce
  ELSE Returned(Num(DifferenceRight(operands, 1), 1))

\* operands.reduce((diff, value, index) => index === 0 ? value : diff - value)
performSubtraction(operands, preferences) ==
  IF operands = <<>> THEN EmptyReduce
  ELSE Returned(Num(DifferenceFrom(operands, 2, operands[1]), 1))

\* operands.reduce((product, value) => product * value, 1)
performMultiplication(operands, preferences) ==
  Returned(Num(ProductFrom(operands, 1, 1), 1))

\* Variant for mutation checks: the reducer without its zero test.
RECURSIVE DivideFromNoCheck(_, _, _)
DivideFromNoCheck(operands, k, q) ==
  IF k > Len(operands) THEN Returned(q)
  ELSE IF q = Infinite \/ operands[k] = 0 THEN DivideFromNoCheck(operands, k + 1, Infinite)
  ELSE DivideFromNoCheck(operands, k + 1, Norm(q.n, q.d * operands[k]))

\* The reducer of performDivision applied from index k on, quotient q so far.
RECURSIVE DivideFrom(_, _, _)
DivideFrom(operands, k, q) ==
  IF k > Len(operands) THEN Returned(q)
  ELSE IF operands[k] = 0 THEN Thrown(Msg("Division by zero", ""))
  ELSE DivideFrom(operands, k + 1, Norm(q.n, q.d * operands[k]))

RoundTo(q, p) ==
  IF q = Infinite THEN q ELSE Norm(MathRound(q.n * Pow10(p), q.d), Pow10(p))

\* Variant for mutation checks: a division that honours roundingMode 'floor'.
performDivisionByMode(operands, preferences) ==
  LET r == IF operands = <<>> THEN EmptyReduce
           ELSE DivideFrom(operands, 2, Num(operands[1], 1))
      floors == /\ "roundingMode" \in DOMAIN preferences
                /\ preferences.roundingMode = "floor"
  IN  IF r.threw THEN r
      ELSE IF preferences.hasPrecision /\ floors /\ r.value # Infinite
           THEN Returned(Norm((r.value.n * Pow10(preferences.precision))
                                \div r.value.d,
                              Pow10(preferences.precision)))
      ELSE IF preferences.hasPrecision
           THEN Returned(RoundTo(r.value, preferences.precision))
           ELSE r

performDivision(operands, preferences) ==
  LET r == IF operands = <<>> THEN EmptyReduce
           ELSE DivideFrom(operands, 2, Num(operands[1], 1))
  IN  IF r.threw THEN r
      ELSE IF preferences.hasPrecision
           THEN Returned(RoundTo(r.value, preferences.precision))
           ELSE r

OwnOperations == {"add", "subtract", "multiply", "divide"}
\* Names every object literal inherits from Object.prototype; operations[name]
\* finds them although the literal does not define them.
InheritedOperations == {"constructor"}

\* String(v) of an intent's operation field, as a property key.
KeyOf(v) == IF v = Null THEN "null" ELSE v.s

\* operations[name](operands, preferences)
ApplyOperation(name, operands, preferences) ==
  CASE name = "add" -> performAddition(operands.items, preferences)
    [] name = "subtract" -> performSubtraction(operands.items, preferences)
    [] name = "multiply" -> performMultiplication(operands.items, preferences)
    [] name = "divide" -> performDivision(operands.items, preferences)
    [] OTHER -> Returned(operands)

(* ------------------------------------------------------- cleanup sweeper *)
\* secureCleanup over objs[k..]; an entry is a record's fields and whether the
\* record is frozen.  Assigning to a field of a frozen record throws in module
\* (strict) code and ends the sweep there.
\* Variant for mutation checks: a sweep that assigns nothing.
RECURSIVE SweepFromSkip(_, _)
SweepFromSkip(objs, k) ==
  IF k > Len(objs) THEN [objs |-> objs, threw |-> FALSE]
  ELSE IF objs[k].frozen /\ DOMAIN objs[k].fields # {} THEN [objs |-> objs, threw |-> TRUE]
  ELSE SweepFromSkip(objs, k + 1)

RECURSIVE SweepFrom(_, _)
SweepFrom(objs, k) ==
  IF k > Len(objs) THEN [objs |-> objs, threw |-> FALSE]
  ELSE IF objs[k].frozen /\ DOMAIN objs[k].fields # {} THEN [objs |-> objs, threw |-> TRUE]
  ELSE SweepFrom([objs EXCEPT ![k].fields = [f \in DOMAIN objs[k].fields |-> Null]], k + 1)

secureCleanup(objs) == SweepFrom(objs, 1)

\* Objects live in a heap and are passed by reference; an array is an object
\* whose keys are its indices.
Ref(id) == [tag |-> "ref", id |-> id]
HeapRecord(fields, frozen) == [kind |-> "record", fields |-> fields, frozen |-> frozen]
HeapArray(items) == [kind |-> "array", fields |-> items, frozen |-> FALSE]

\* typeof data === 'object' && data !== null
IsObject(v) == v.tag = "ref"

\* secureCleanup(elems) on the heap: the elements that pass the typeof test
\* are swept in order; an object given more than once is as its first sweep
\* left it.
SweptHeap(heap, elems) ==
  LET refs == SelectSeq(elems, IsObject)
      sw == secureCleanup([k \in 1..Len(refs) |->
                            [fields |-> heap[refs[k].id].fields,
                             frozen |-> heap[refs[k].id].frozen]])
      First(id) == CHOOSE k \in 1..Len(refs) :
                     refs[k].id = id /\ \A j \in 1..(k - 1) : refs[j].id # id
  IN  [heap |-> [id \in DOMAIN heap |->
                  IF \E k \in 1..Len(refs) : refs[k].id = id
                  THEN [heap[id] EXCEPT !.fields = sw.objs[First(id)].fields]
                  ELSE heap[id]],
       threw |-> sw.threw]

(* --------------------------------------------------- DOM cleanup tracker *)
\* The DOM the tracker refers to: two elements, each detached, a child of the
\* body or (the second) a child of the first, and the listeners registered on
\* an event target.  A registration is a target, a type and a listener; the
\* DOM keeps a registration once however often it is added.
NoNode == "none"
Elements == {"e1", "e2"}
DomParents ==
  {p \in [Elements -> {NoNode, "body", "e1"}] : p["e1"] # "e1"}
ListenerEntries ==
  {[target |-> "button", type |-> "click", listener |-> l] : l \in {"f", "g"}}

\* addElement(element): elementsToClean.add(element)
addElement(d, element) == [d EXCEPT !.elementsToClean = @ \cup {element}]

\* addEventListener(target, type, listener)
addEventListener(d, entry) ==
  [d EXCEPT !.listeners = @ \cup {entry},
            !.listenersToRemove = Append(@, entry)]

\* Variant for mutation checks: a removal that removes nothing.
removeEventListenerKept(listeners, entry) == listeners

\* target.removeEventListener(type, listener)
removeEventListener(listeners, entry) == listeners \ {entry}

\* element.parentNode.removeChild(element)
removeChild(parentNode, element) == [parentNode EXCEPT ![element] = NoNode]

\* for (const element of elementsToClean) if (element.parentNode) ...
RECURSIVE DetachAll(_, _)
DetachAll(parentNode, elements) ==
  IF elements = {} THEN parentNode
  ELSE LET element == CHOOSE x \in elements : TRUE
       IN  DetachAll(IF parentNode[element] # NoNode
                     THEN removeChild(parentNode, element) ELSE parentNode,
                     elements \ {element})

\* for (const { target, type, listener } of listenersToRemove) ...
RECURSIVE RemoveFrom(_, _, _)
RemoveFrom(listeners, entries, k) ==
  IF k > Len(entries) THEN listeners
  ELSE RemoveFrom(removeEventListener(listeners, entries[k]), entries, k + 1)

\* cleanup(); cleanups counts the calls, detached and unregistered record
\* the elements they took from a parent and the registrations they removed.
cleanup(d) ==
  [d EXCEPT !.parentNode = DetachAll(@, d.elementsToClean),
            !.elementsToClean = {},
            !.listeners = RemoveFrom(@, d.listenersToRemove, 1),
            !.listenersToRemove = <<>>,
            !.cleanups = @ + 1,
            !.detached = @ \cup {element \in d.elementsToClean :
                                   d.parentNode[element] # NoNode},
            !.unregistered = @ \cup (d.listeners \
                               RemoveFrom(d.listeners, d.listenersToRemove, 1))]

(* ----------------------------------------------------------------- state *)
VARIABLES
  variant,       \* which implementation runs
  intent,        \* the caller's TaskIntent object, as it is now
  intentFrozen,  \* whether that object has been frozen
  given,         \* the TaskIntent as the caller built it (history)
  inst,          \* the calculator instances
  calls,         \* the execute() calls
  storage,       \* the broker's entry at '/preferences/calculator'
  reads,         \* number of broker read() calls so far
  handleCount,   \* the broker's handleCount
  tails,         \* the broker's pending setTimeout callbacks (deferred decrements)
  accesses,      \* number of read/write/delete calls the broker has had (history)
  compliance,    \* what the last validateManifestoCompliance call returned
  sweep,         \* a call of the sweeper on its own: the objects and its argument
  ui,            \* the web page: its module variables, timers and indicator
  dom,           \* the instance's DOM cleanup tracker and the DOM it refers to
  now            \* the clock

vars == <<variant, intent, intentFrozen, given, inst, calls, storage, reads,
          handleCount, tails, accesses, compliance, sweep, ui, dom, now>>

Intent(o, s) == [operation |-> Str(o), operands |-> Arr(s)]
\* The intents a caller passes: registered operations, divisions by a zero in
\* middle and in last position, an unregistered name and an inherited one.
InputIntents ==
  {Intent(o, <<6, 3>>) : o \in {"add", "divide", "invalid"} \cup InheritedOperations}
    \cup {Intent("divide", <<4, 0, 2>>), Intent("divide", <<4, 2, 0>>)}
InputStorage == {Undefined, Prefs(TRUE, 1)}
\* options.maxLifetime; 0 stands for an absent option (both are falsy).
InputLifetimes == 0..MaxTime
ReadOutcomes == {"ok", "error", "nonError"}

AllNull == [operands |-> Null, result |-> Null, userPreferences |-> Null]

IdleDissolve == [pc |-> "idle", threw |-> FALSE, noop |-> FALSE, outcome |-> "none"]

NoInstance ==
  [live |-> FALSE, active |-> FALSE, timer |-> "none", manifestedAt |-> 0,
   options |-> 0, maxLifetime |-> 0, purpose |-> Undefined,
   sensitiveData |-> AllNull,
   sweeps |-> 0, cancels |-> 0, domCleanups |-> 0,
   dcalls |-> [k \in DissolveIds |-> IdleDissolve]]

IdleCall ==
  [pc |-> "idle", inst |-> 0, path |-> Undefined, read |-> "none",
   readVal |-> Undefined,
   ranActive |-> FALSE, outcome |-> "none", value |-> Undefined,
   error |-> NoMsg, operation |-> Undefined]

\* No sweeper call on its own, no page, a tracker nothing was added to.
NoSweep == [pc |-> "none"]
NoPage == [pc |-> "none"]
NoTracker ==
  [elementsToClean |-> {}, listenersToRemove |-> <<>>,
   parentNode |-> [element \in Elements |-> NoNode], listeners |-> {},
   cleanups |-> 0, detached |-> {}, unregistered |-> {}]

\* The state before manifest, for a caller holding one of the given intents
\* and a broker holding one of the given entries.
StartCalculator(intents, entries) ==
  /\ variant \in {"node", "web"}
  /\ intent \in intents
  /\ intentFrozen = FALSE
  /\ given = intent
  /\ inst = [i \in InstIds |-> NoInstance]
  /\ calls = [c \in CallIds |-> IdleCall]
  /\ storage \in entries
  /\ reads = 0
  /\ handleCount = 0
  /\ tails = 0
  /\ accesses = 0
  /\ compliance = Undefined
  /\ now = 0

Start(intents, entries) ==
  /\ StartCalculator(intents, entries)
  /\ sweep = NoSweep
  /\ ui = NoPage
  /\ dom = NoTracker

Init == Start(InputIntents, InputStorage)

(* -------------------------------------------------------------- manifest *)
\* Variant for mutation checks: the option ignored.
LifetimeDefaultOnly(opt) == DEFAULT_MAX_LIFETIME

\* options?.maxLifetime || DEFAULT_MAX_LIFETIME
LifetimeOf(opt) == IF opt = 0 THEN DEFAULT_MAX_LIFETIME ELSE opt

\* createEphemeralState: Object.freeze(data) freezes the caller's object.
FreezesIntent(v) == v = "node"

\* manifestCalculator + constructor.  With an intent whose operands are null
\* the spread in the constructor throws and no instance comes to exist.
Manifest(i, opt) ==
  /\ ~inst[i].live
  /\ intent.operands # Null
  /\ inst' = [inst EXCEPT ![i] =
       [NoInstance EXCEPT !.live = TRUE, !.active = TRUE, !.timer = "pending",
          !.manifestedAt = now, !.options = opt, !.maxLifetime = LifetimeOf(opt),
          !.purpose = intent.operation,
          !.sensitiveData = [AllNull EXCEPT !.operands = Arr(intent.operands.items)]]]
  /\ intentFrozen' = (intentFrozen \/ FreezesIntent(variant))
  /\ UNCHANGED <<variant, intent, given, calls, storage, reads, handleCount, tails, accesses, compliance, sweep, ui, dom, now>>

(* ---------------------------------------------------------------- broker *)
\* storage.get(path): the store holds an entry at the preferences path only.
StoredAt(st, path) ==
  IF path = Str("/preferences/calculator") THEN st ELSE Undefined

\* Variant for mutation checks: an access that takes no handle.
HandleKept(h) == h

\* handleCount++
HandleAfterAccess(h) == h + 1

\* The deferred callback: handleCount-- in the mock broker,
\* handleCount = Math.max(0, handleCount - 1) in the web broker.
HandleAfterTail(v, h) ==
  IF v = "web" THEN (IF h - 1 > 0 THEN h - 1 ELSE 0) ELSE h - 1

\* A caller's own read/write/delete; the caller makes at most MaxAccesses.
BrokerAccess(st) ==
  /\ accesses - reads < MaxAccesses
  /\ storage' = st
  /\ handleCount' = HandleAfterAccess(handleCount)
  /\ tails' = tails + 1
  /\ accesses' = accesses + 1
  /\ UNCHANGED <<variant, intent, intentFrozen, given, inst, calls, reads, compliance, sweep, ui, dom, now>>

\* userState.read(path) by the caller: the store is left as it is.
BrokerRead == BrokerAccess(storage)

\* userState.write(path, value): storage.set(path, Object.freeze(value))
BrokerWrite(value) == storage # value /\ BrokerAccess(value)

\* userState.delete(path): storage.delete(path)
BrokerDelete == storage # Undefined /\ BrokerAccess(Undefined)

(* --------------------------------------------------------------- execute *)
\* Variant for mutation checks: the Active check left out.
ExecuteRejectsNever(active) == FALSE

\* Variant for mutation checks: execute() refused whatever the flag.
ExecuteRejectsAlways(active) == TRUE

\* if (!this.active) throw new Error('Calculator has been dissolved')
ExecuteRejects(active) == ~active

DissolvedMsg == Msg("Calculator has been dissolved", "")

\* Variant for mutation checks: the read made at another path.
OtherPath == Str("/preferences")

\* userState.read('/preferences/calculator')
PreferencesPath == Str("/preferences/calculator")

\* execute() up to the await of userState.read: the guard, then the read,
\* which takes a handle and defers its release.
ExecuteCall(i, c) ==
  /\ inst[i].live
  /\ calls[c].pc = "idle"
  /\ \A b \in CallIds : b < c => calls[b].pc # "idle"
  /\ IF ExecuteRejects(inst[i].active)
     THEN /\ calls' = [calls EXCEPT ![c] =
                [IdleCall EXCEPT !.pc = "done", !.inst = i, !.outcome = "thrown",
                                 !.error = DissolvedMsg]]
          /\ UNCHANGED <<reads, handleCount, tails, accesses>>
     ELSE /\ calls' = [calls EXCEPT ![c] =
                 [IdleCall EXCEPT !.pc = "awaitRead", !.inst = i,
                    !.path = PreferencesPath,
                    !.readVal = StoredAt(storage, PreferencesPath)]]
          /\ reads' = reads + 1
          /\ handleCount' = HandleAfterAccess(handleCount)
          /\ tails' = tails + 1
          /\ accesses' = accesses + 1
  /\ UNCHANGED <<variant, intent, intentFrozen, given, inst, storage, compliance, sweep, ui, dom, now>>

BrokerFailure == Msg("broker failure", "")

\* error instanceof Error ? error.message : 'Unknown error'
MessageOf(ro) == IF ro = "error" THEN BrokerFailure ELSE Msg("Unknown error", "")

\* Variant for mutation checks: the failure rethrown instead of returned.
CaughtRethrown(m) == [outcome |-> "thrown", error |-> m]

\* catch (error) { return { error: ..., operation, completedAt } }
Caught(m) == [outcome |-> "error", error |-> m]

\* Variant for mutation checks: a missing entry read as precision 0.
PreferencesOrZero(v) == IF v = Undefined THEN Prefs(TRUE, 0) ELSE v

\* preferences || {}
PreferencesOr(v) == IF v = Undefined THEN EmptyPrefs ELSE v

\* Variants for mutation checks: a slot written only while it is empty.
StorePreferencesOnce(sensitiveData, preferences) ==
  IF sensitiveData.userPreferences = Null
  THEN [sensitiveData EXCEPT !.userPreferences = preferences]
  ELSE sensitiveData

StoreResultOnce(sensitiveData, value) ==
  IF sensitiveData.result = Null
  THEN [sensitiveData EXCEPT !.result = value]
  ELSE sensitiveData

\* this.sensitiveData.userPreferences = preferences
StorePreferences(sensitiveData, preferences) ==
  [sensitiveData EXCEPT !.userPreferences = preferences]

\* this.sensitiveData.result = value
StoreResult(sensitiveData, value) == [sensitiveData EXCEPT !.result = value]

\* The continuation of execute() after the read has settled with outcome ro:
\* the stored value, a rejection with an Error, or a rejection with another
\* value.
ExecuteResume(c, ro) ==
  /\ calls[c].pc = "awaitRead"
  /\ LET i == calls[c].inst
         r == inst[i]
         key == KeyOf(intent.operation)
         preferences == PreferencesOr(calls[c].readVal)
         done == [calls[c] EXCEPT !.pc = "done", !.read = ro, !.ranActive = r.active,
                                  !.operation = intent.operation]
     IN  IF ro # "ok"
         THEN LET k == Caught(MessageOf(ro))
              IN  /\ calls' = [calls EXCEPT ![c] =
                        [done EXCEPT !.outcome = k.outcome, !.error = k.error]]
                  /\ UNCHANGED inst
         ELSE IF key \notin OwnOperations \cup InheritedOperations
         THEN /\ calls' = [calls EXCEPT ![c] =
                    [done EXCEPT !.outcome = "error",
                                 !.error = Msg("Unknown operation: ", key)]]
              /\ inst' = [inst EXCEPT
                    ![i].sensitiveData = StorePreferences(@, preferences)]
         ELSE LET res == ApplyOperation(key, intent.operands, preferences)
              IN  IF res.threw
                  THEN LET k == Caught(res.error)
                       IN  /\ calls' = [calls EXCEPT ![c] =
                                 [done EXCEPT !.outcome = k.outcome, !.error = k.error]]
                           /\ inst' = [inst EXCEPT
                                 ![i].sensitiveData = StorePreferences(@, preferences)]
                  ELSE /\ calls' = [calls EXCEPT ![c] =
                             [done EXCEPT !.outcome = "value", !.value = res.value]]
                       /\ inst' = [inst EXCEPT
                             ![i].sensitiveData =
                               StoreResult(StorePreferences(@, preferences), res.value)]
  /\ UNCHANGED <<variant, intent, intentFrozen, given, storage, reads, handleCount, tails, accesses, compliance, sweep, ui, dom, now>>

(* -------------------------------------------------------------- dissolve *)
\* if (!this.active) return;   -- only the web implementation has this guard
DissolveSkips(v, active) == v = "web" /\ ~active

\* Variant for mutation checks: the flag flipped instead of cleared.
ActiveToggled(active) == ~active

\* this.active = false
ActiveAfterDissolve(active) == FALSE

\* Variant for mutation checks: a cancel that leaves the timer armed.
clearTimeoutIgnored(timer) == timer

\* hasResidualData(): return false
hasResidualData(sensitiveData) == FALSE

\* clearTimeout(this.dissolutionTimer)
clearTimeout(timer) == IF timer = "pending" THEN "cancelled" ELSE timer

\* this.sensitiveData = { operands: null, result: null, userPreferences: null }
FreshRegistry(sensitiveData) == AllNull

\* dissolve() up to the await of secureCleanup, whose body has no await and
\* so has run (or thrown) by then.  Slot k records the call; timer is the
\* state of the instance's timer when the call is made ("fired" when the
\* timer callback makes it).
DissolveBegin(i, k, timer) ==
  LET r == inst[i]
  IN  IF DissolveSkips(variant, r.active)
      THEN /\ inst' = [inst EXCEPT ![i].timer = timer, ![i].dcalls[k] =
                 [IdleDissolve EXCEPT !.pc = "done", !.noop = TRUE,
                                      !.outcome = "resolved"]]
           /\ UNCHANGED <<intent, dom>>
      ELSE LET sw == secureCleanup(<<[fields |-> r.sensitiveData, frozen |-> FALSE],
                                     [fields |-> intent, frozen |-> intentFrozen]>>)
           IN  /\ inst' = [inst EXCEPT ![i] =
                     [r EXCEPT !.active = ActiveAfterDissolve(r.active),
                        !.timer = clearTimeout(timer),
                        !.cancels = @ + 1,
                        !.domCleanups = IF variant = "web" THEN @ + 1 ELSE @,
                        !.sweeps = @ + 1,
                        !.sensitiveData = sw.objs[1].fields,
                        !.dcalls[k] = [IdleDissolve EXCEPT !.pc = "awaitSweep",
                                         !.threw = sw.threw]]]
               /\ intent' = sw.objs[2].fields
               /\ dom' = IF variant = "web" THEN cleanup(dom) ELSE dom

\* The caller's dissolve().
DissolveCall(i, k) ==
  /\ inst[i].live
  /\ k # 0
  /\ inst[i].dcalls[k].pc = "idle"
  /\ \A j \in DissolveIds : (0 < j /\ j < k) => inst[i].dcalls[j].pc # "idle"
  /\ DissolveBegin(i, k, inst[i].timer)
  /\ UNCHANGED <<variant, intentFrozen, given, calls, storage, reads, handleCount, tails, accesses, compliance, sweep, ui, now>>

\* Variant for mutation checks: a timeout armed with no delay.
TimerDueAtOnce(r, t) == t >= r.manifestedAt

\* setTimeout(..., maxLifetime), armed at manifestedAt: due from then on.
TimerDue(r, t) == t >= r.manifestedAt + r.maxLifetime

\* The setTimeout callback of the constructor: this.dissolve().
TimerFire(i) ==
  /\ inst[i].timer = "pending"
  /\ TimerDue(inst[i], now)
  /\ DissolveBegin(i, 0, "fired")
  /\ UNCHANGED <<variant, intentFrozen, given, calls, storage, reads, handleCount, tails, accesses, compliance, sweep, ui, now>>

\* The continuation of dissolve() after the await: the rejection of a sweep
\* that threw is rethrown, otherwise the registry is replaced.
DissolveResume(i, k) ==
  /\ inst[i].dcalls[k].pc = "awaitSweep"
  /\ IF inst[i].dcalls[k].threw
     THEN inst' = [inst EXCEPT ![i].dcalls[k].pc = "done",
                               ![i].dcalls[k].outcome = "rejected"]
     ELSE inst' = [inst EXCEPT ![i].dcalls[k].pc = "done",
                               ![i].dcalls[k].outcome = "resolved",
                               ![i].sensitiveData = FreshRegistry(@)]
  /\ UNCHANGED <<variant, intent, intentFrozen, given, calls, storage, reads, handleCount, tails, accesses, compliance, sweep, ui, dom, now>>

(* ------------------------------------------------------- broker's timers *)
\* One deferred decrement runs.  It is a timer callback: the brokers settle
\* a read at once, so the continuation of the execute() that made the read
\* runs before it.
HandleRelease ==
  /\ tails > 0
  /\ \A c \in CallIds : calls[c].pc # "awaitRead"
  /\ handleCount' = HandleAfterTail(variant, handleCount)
  /\ tails' = tails - 1
  /\ UNCHANGED <<variant, intent, intentFrozen, given, inst, calls, storage, reads,
                 accesses, compliance, sweep, ui, dom, now>>

(* ------------------------------------------------ the tracker's callers *)
\* The page adds an element or a listener to the tracker, or runs its
\* cleanup() itself.
TrackerAddElement(element) ==
  /\ element \notin dom.elementsToClean
  /\ dom' = addElement(dom, element)
  /\ UNCHANGED <<variant, intent, intentFrozen, given, inst, calls, storage,
                 reads, handleCount, tails, accesses, compliance, sweep, ui, now>>

TrackerAddEventListener(entry) ==
  /\ Len(dom.listenersToRemove) < MaxListeners
  /\ dom' = addEventListener(dom, entry)
  /\ UNCHANGED <<variant, intent, intentFrozen, given, inst, calls, storage,
                 reads, handleCount, tails, accesses, compliance, sweep, ui, now>>

TrackerCleanup ==
  /\ dom.cleanups < MaxCleanups
  /\ dom' = cleanup(dom)
  /\ UNCHANGED <<variant, intent, intentFrozen, given, inst, calls, storage,
                 reads, handleCount, tails, accesses, compliance, sweep, ui, now>>

(* ------------------------------------------------------------ web page *)
\* The page of the web example.  Every handler awaits only promises that are
\* already settled (manifestCalculator, dissolve, hideCalculator and the
\* in-memory broker's read never wait for a task), so a handler runs from its
\* event to its end before any other event, timer or interval callback: each
\* handler is one action.  The page's calculators are numbered in the order
\* of their manifestation; the interval and the timeout that
\* manifestCalculatorUI arms carry the number of the calculator manifested
\* there.
PageCalcs == 1..MaxManifests

NoCalc ==
  [live |-> FALSE, active |-> FALSE, timer |-> "none", manifestedAt |-> 0,
   maxLifetime |-> 0]

\* The page after initializeApp.
LoadedPage ==
  [pc |-> "ready", calcs |-> [c \in PageCalcs |-> NoCalc],
   currentCalculator |-> 0, dissolutionTimerInterval |-> 0,
   intervals |-> {}, timeouts |-> {}, hides |-> 0,
   status |-> "dissolved", shown |-> FALSE]

\* manifestCalculator(intent, domCleanup, options) at time t, with the timer
\* the constructor arms.
WebCalculator(t, opt) ==
  [live |-> TRUE, active |-> TRUE, timer |-> "pending", manifestedAt |-> t,
   maxLifetime |-> LifetimeOf(opt)]

\* calculator.dissolve(); timer is the state of its timer at the call.
WebDissolve(calc, timer) ==
  IF DissolveSkips("web", calc.active) THEN calc
  ELSE [calc EXCEPT !.active = ActiveAfterDissolve(@),
                    !.timer = clearTimeout(timer)]

\* getRemainingTime() at time t
getRemainingTime(calc, t) ==
  IF ~calc.active THEN 0
  ELSE IF calc.maxLifetime - (t - calc.manifestedAt) > 0
       THEN calc.maxLifetime - (t - calc.manifestedAt) ELSE 0

\* currentCalculator?.isActive()
CurrentIsActive(u) ==
  u.currentCalculator # 0 /\ u.calcs[u.currentCalculator].active

\* clearInterval(dissolutionTimerInterval); dissolutionTimerInterval = null
stopDissolutionTimer(u) ==
  IF u.dissolutionTimerInterval # 0
  THEN [u EXCEPT !.intervals = @ \ {u.dissolutionTimerInterval},
                 !.dissolutionTimerInterval = 0]
  ELSE u

\* updateTimer of the interval started for calculator c: Math.ceil(remaining
\* / 1000) <= 0 exactly when nothing remains.
updateTimer(u, c, t) ==
  IF getRemainingTime(u.calcs[c], t) <= 0 THEN stopDissolutionTimer(u) ELSE u

\* startDissolutionTimer(calculator)
startDissolutionTimer(u, c, t) ==
  LET v == updateTimer(u, c, t)
  IN  [v EXCEPT !.intervals = @ \cup {c}, !.dissolutionTimerInterval = c]

\* dissolveCalculator(), hideCalculator() up to its timeout included.
dissolveCalculator(u) ==
  IF ~CurrentIsActive(u) THEN u
  ELSE LET v == stopDissolutionTimer([u EXCEPT !.status = "dissolving"])
       IN  [v EXCEPT !.calcs[u.currentCalculator] = WebDissolve(@, @.timer),
                     !.currentCalculator = 0,
                     !.status = "dissolving",
                     !.hides = @ + 1]

\* The number the next calculator of the page gets.
NextCalc(u) ==
  CHOOSE c \in PageCalcs :
    ~u.calcs[c].live /\ \A d \in PageCalcs : d < c => u.calcs[d].live

\* Of two timeouts that are due the one armed first with the shorter or same
\* delay runs first.  The calculator's timer is armed before the page's
\* timeout of the same manifestation.
CalcTimerFirst(u, c) ==
  /\ \A d \in PageCalcs :
       (d < c /\ u.calcs[d].timer = "pending")
         => u.calcs[d].maxLifetime > u.calcs[c].maxLifetime
  /\ \A d \in u.timeouts :
       d < c => u.calcs[d].maxLifetime > u.calcs[c].maxLifetime

PageTimeoutFirst(u, c) ==
  /\ \A d \in PageCalcs :
       (d <= c /\ u.calcs[d].timer = "pending")
         => u.calcs[d].maxLifetime > u.calcs[c].maxLifetime
  /\ \A d \in u.timeouts :
       d < c => u.calcs[d].maxLifetime > u.calcs[c].maxLifetime

\* manifestCalculatorUI: the click on the manifest button.
PageManifest ==
  /\ ui.pc = "ready"
  /\ ~CurrentIsActive(ui)
  /\ \E c \in PageCalcs : ~ui.calcs[c].live
  /\ LET c == NextCalc(ui)
         u == [ui EXCEPT !.calcs[c] = WebCalculator(now, 0),
                         !.currentCalculator = c,
                         !.status = "active",
                         !.shown = TRUE]
         v == startDissolutionTimer(u, c, now)
     IN  ui' = [v EXCEPT !.timeouts = @ \cup {c}]
  /\ UNCHANGED <<variant, intent, intentFrozen, given, inst, calls, storage,
                 reads, handleCount, tails, accesses, compliance, sweep, dom, now>>

\* dissolveCalculator: the click on the dissolve button.
PageDissolve ==
  /\ ui.pc = "ready"
  /\ CurrentIsActive(ui)
  /\ ui' = dissolveCalculator(ui)
  /\ UNCHANGED <<variant, intent, intentFrozen, given, inst, calls, storage,
                 reads, handleCount, tails, accesses, compliance, sweep, dom, now>>

\* autoDissolve: the timeout manifestCalculatorUI armed for calculator c.
PageAutoDissolve(c) ==
  /\ ui.pc = "ready"
  /\ c \in ui.timeouts
  /\ TimerDue(ui.calcs[c], now)
  /\ PageTimeoutFirst(ui, c)
  /\ ui' = dissolveCalculator([ui EXCEPT !.timeouts = @ \ {c}])
  /\ UNCHANGED <<variant, intent, intentFrozen, given, inst, calls, storage,
                 reads, handleCount, tails, accesses, compliance, sweep, dom, now>>

\* The timer of calculator c: this.dissolve().
PageCalcTimer(c) ==
  /\ ui.pc = "ready"
  /\ ui.calcs[c].timer = "pending"
  /\ TimerDue(ui.calcs[c], now)
  /\ CalcTimerFirst(ui, c)
  /\ ui' = [ui EXCEPT !.calcs[c] = WebDissolve(@, "fired")]
  /\ UNCHANGED <<variant, intent, intentFrozen, given, inst, calls, storage,
                 reads, handleCount, tails, accesses, compliance, sweep, dom, now>>

\* performCalculation with a filled form: the replacement is manifested with
\* the time the current calculator has left, the current one dissolved.
PageSubmit ==
  /\ ui.pc = "ready"
  /\ CurrentIsActive(ui)
  /\ \E c \in PageCalcs : ~ui.calcs[c].live
  /\ LET old == ui.currentCalculator
         c == NextCalc(ui)
     IN  ui' = [ui EXCEPT
                  !.calcs[c] = WebCalculator(now, getRemainingTime(ui.calcs[old], now)),
                  !.calcs[old] = WebDissolve(@, @.timer),
                  !.currentCalculator = c]
  /\ UNCHANGED <<variant, intent, intentFrozen, given, inst, calls, storage,
                 reads, handleCount, tails, accesses, compliance, sweep, dom, now>>

\* One run of the interval callback started for calculator c.
PageInterval(c) ==
  /\ ui.pc = "ready"
  /\ c \in ui.intervals
  /\ ui' = updateTimer(ui, c, now)
  /\ UNCHANGED <<variant, intent, intentFrozen, given, inst, calls, storage,
                 reads, handleCount, tails, accesses, compliance, sweep, dom, now>>

\* The timeout of hideCalculator.
PageHidden ==
  /\ ui.pc = "ready"
  /\ ui.hides > 0
  /\ ui' = [ui EXCEPT !.hides = @ - 1, !.shown = FALSE, !.status = "dissolved"]
  /\ UNCHANGED <<variant, intent, intentFrozen, given, inst, calls, storage,
                 reads, handleCount, tails, accesses, compliance, sweep, dom, now>>

\* Time passes on the page, by whole units or to the deadline of a pending
\* timeout.
PageDeadlines ==
  {ui.calcs[c].manifestedAt + ui.calcs[c].maxLifetime :
     c \in {d \in PageCalcs : ui.calcs[d].timer = "pending"} \cup ui.timeouts}

PageTick ==
  /\ ui.pc = "ready"
  /\ PageDeadlines # {}
  /\ \E t \in (0..MaxTime) \cup PageDeadlines : t > now /\ now' = t
  /\ UNCHANGED <<variant, intent, intentFrozen, given, inst, calls, storage,
                 reads, handleCount, tails, accesses, compliance, sweep, ui, dom>>

(* ------------------------------------------------------ compliance scan *)
\* MomentaryCalculatorImpl.toString() is the text the build left of the
\* class: the whole class body when classes are kept (it then holds the
\* scanner's own string literals), the constructor function alone when the
\* build lowers classes to functions.  A text is modelled by the identifiers
\* and literals in it that the scan could match.
Builds == {"class", "function"}

ScannerLiterals ==
  {"localStorage", "sessionStorage", "setInterval", "analytics", "tracking"}

ClassText(build) ==
  IF build = "class"
  THEN {"setTimeout", "clearTimeout", "hasAnalytics"} \cup ScannerLiterals
  ELSE {"setTimeout"}

\* codeString.includes(s), case-sensitive
Includes(text, s) == s \in text

StorageViolation == "Uses browser storage (violates BYOS)"
TimerViolation == "Uses persistent timers (violates temporary manifestation)"
TrackingViolation == "Includes tracking (violates privacy through ephemerality)"

\* v.includes(word) for the violation messages above
Mentions(v, word) == word = "BYOS" /\ v = StorageViolation

detectAntiPatterns(codeString) ==
  (IF Includes(codeString, "localStorage") \/ Includes(codeString, "sessionStorage")
   THEN <<StorageViolation>> ELSE <<>>)
  \o (IF Includes(codeString, "setInterval") THEN <<TimerViolation>> ELSE <<>>)
  \o (IF Includes(codeString, "analytics") \/ Includes(codeString, "tracking")
      THEN <<TrackingViolation>> ELSE <<>>)

validateManifestoCompliance(codeString) ==
  LET violations == detectAntiPatterns(codeString)
  IN  [isEphemeral |-> Len(violations) = 0,
       respectsUserDataOwnership |->
         ~(\E k \in 1..Len(violations) : Mentions(violations[k], "BYOS")),
       hasZeroAttentionArchitecture |->
         ~(\E k \in 1..Len(violations) : Mentions(violations[k], "attention")),
       preventsContagion |-> TRUE,
       enablesCompleteDissolusion |-> TRUE,
       violations |-> violations]

\* validateManifestoCompliance(MomentaryCalculator), a static call on the node
\* class; every call of one program sees the same text.
Validate ==
  /\ variant = "node"
  /\ \E build \in Builds :
       /\ compliance \in {Undefined, validateManifestoCompliance(ClassText(build))}
       /\ compliance' = validateManifestoCompliance(ClassText(build))
  /\ UNCHANGED <<variant, intent, intentFrozen, given, inst, calls, storage, reads,
                 handleCount, tails, accesses, sweep, ui, dom, now>>

(* ----------------------------------------------------------------- clock *)
\* Time passes while a timer is pending (it matters to nothing else): by whole
\* units, or straight to the deadline of a pending timer.
Deadlines == {inst[i].manifestedAt + inst[i].maxLifetime :
                i \in {j \in InstIds : inst[j].timer = "pending"}}

Tick ==
  /\ Deadlines # {}
  /\ \E t \in (0..MaxTime) \cup Deadlines : t > now /\ now' = t
  /\ UNCHANGED <<variant, intent, intentFrozen, given, inst, calls, storage, reads, handleCount, tails, accesses, compliance, sweep, ui, dom>>

(* --------------------------------------------------------- specification *)
Next ==
  \/ \E i \in MainInsts, opt \in InputLifetimes : Manifest(i, opt)
  \/ \E i \in MainInsts, c \in CallIds : ExecuteCall(i, c)
  \/ \E c \in CallIds, ro \in ReadOutcomes : ExecuteResume(c, ro)
  \/ \E i \in MainInsts, k \in DissolveIds : DissolveCall(i, k)
  \/ \E i \in MainInsts : TimerFire(i)
  \/ \E i \in MainInsts, k \in DissolveIds : DissolveResume(i, k)
  \/ Tick

Spec == Init /\ [][Next]_vars

\* The timer's behaviour does not depend on the arithmetic, so the timing
\* claims are checked over fewer intents.  The event loop runs a due timer
\* callback and the continuation of a settled await.
TimerInit ==
  /\ Init
  /\ intent.operation.s \in {"divide", "invalid"}
  /\ intent.operands = Arr(<<6, 3>>)
  /\ storage = Prefs(TRUE, 1)

TimerSpec ==
  /\ TimerInit
  /\ [][Next]_vars
  /\ WF_vars(Tick)
  /\ \A i \in MainInsts : WF_vars(TimerFire(i))
  /\ \A i \in MainInsts, k \in DissolveIds : WF_vars(DissolveResume(i, k))

\* Two instances manifested from the one TaskIntent object the caller holds.
IsoInit ==
  /\ Init
  /\ intent = Intent("add", <<6, 3>>)
  /\ storage = Undefined

IsoNext ==
  \/ \E i \in InstIds, opt \in InputLifetimes : Manifest(i, opt)
  \/ \E i \in InstIds, c \in CallIds : ExecuteCall(i, c)
  \/ \E c \in CallIds, ro \in ReadOutcomes : ExecuteResume(c, ro)
  \/ \E i \in InstIds, k \in DissolveIds : DissolveCall(i, k)
  \/ \E i \in InstIds : TimerFire(i)
  \/ \E i \in InstIds, k \in DissolveIds : DissolveResume(i, k)
  \/ Tick

IsoSpec == IsoInit /\ [][IsoNext]_vars

\* The calculator with a broker whose entry the caller writes and deletes
\* between the calls, and whose deferred releases run.
BrokerEntries == {Undefined, EmptyPrefs, Prefs(TRUE, 0)}

BrokerInit ==
  Start({Intent("divide", <<10, 4>>), Intent("divide", <<4, 0>>)}, BrokerEntries)

BrokerNext ==
  \/ \E i \in MainInsts : Manifest(i, 0)
  \/ \E i \in MainInsts, c \in CallIds : ExecuteCall(i, c)
  \/ \E c \in CallIds, ro \in {"ok", "error"} : ExecuteResume(c, ro)
  \/ \E i \in MainInsts : DissolveCall(i, 1)
  \/ \E i \in MainInsts : DissolveResume(i, 1)
  \/ \E value \in BrokerEntries \ {Undefined} : BrokerWrite(value)
  \/ BrokerDelete
  \/ HandleRelease

BrokerSpec == BrokerInit /\ [][BrokerNext]_vars

\* The broker's handle accounting alone: accesses by execute() and by the
\* caller, and the event loop, which runs every continuation and every timer
\* callback that is due.
HandleInit == Start({Intent("add", <<6, 3>>)}, {Undefined})

HandleNext ==
  \/ \E i \in MainInsts : Manifest(i, 0)
  \/ \E i \in MainInsts, c \in CallIds : ExecuteCall(i, c)
  \/ \E c \in CallIds : ExecuteResume(c, "ok")
  \/ BrokerRead
  \/ \E value \in BrokerEntries \ {Undefined} : BrokerWrite(value)
  \/ BrokerDelete
  \/ HandleRelease

HandleSpec ==
  /\ HandleInit
  /\ [][HandleNext]_vars
  /\ \A c \in CallIds : WF_vars(ExecuteResume(c, "ok"))
  /\ WF_vars(HandleRelease)

\* Overlapping execute() calls on one instance that is never dissolved, the
\* caller changing the stored preferences in between; the event loop runs the
\* continuation of every read that has settled.
OverlapInit == Start({Intent("divide", <<10, 4>>)}, BrokerEntries)

OverlapNext ==
  \/ \E i \in MainInsts : Manifest(i, 0)
  \/ \E i \in MainInsts, c \in CallIds : ExecuteCall(i, c)
  \/ \E c \in CallIds : ExecuteResume(c, "ok")
  \/ \E value \in BrokerEntries \ {Undefined} : BrokerWrite(value)
  \/ BrokerDelete

OverlapSpec ==
  /\ OverlapInit
  /\ [][OverlapNext]_vars
  /\ \A c \in CallIds : WF_vars(ExecuteResume(c, "ok"))

\* The four operations on 10 and 4, executed under stored preferences that
\* differ in precision and in roundingMode; the caller rewrites or deletes the
\* entry between the calls.
PrefsEntries ==
  {Undefined, Prefs(TRUE, 1), PrefsWith(TRUE, 0, "round"),
   PrefsWith(TRUE, 0, "floor"), PrefsWith(FALSE, 0, "ceil")}

PrefsInit ==
  Start({Intent(op, <<10, 4>>) : op \in OwnOperations}, PrefsEntries)

PrefsNext ==
  \/ \E i \in MainInsts : Manifest(i, 0)
  \/ \E i \in MainInsts, c \in CallIds : ExecuteCall(i, c)
  \/ \E c \in CallIds : ExecuteResume(c, "ok")
  \/ \E value \in PrefsEntries \ {Undefined} : BrokerWrite(value)
  \/ BrokerDelete

PrefsSpec == PrefsInit /\ [][PrefsNext]_vars

\* The sweeper on its own.  The heap holds an intent-like record (frozen, as
\* the node constructor leaves it, or not) whose operands field refers to an
\* array, and a second array; the argument is any sequence of numbers,
\* strings, null, undefined and references to these objects.
SweepHeaps ==
  {<<HeapRecord([operation |-> Str("add"), operands |-> Ref(3)], frozen),
     HeapArray(<<Num(6, 1), Num(3, 1)>>),
     HeapArray(<<Num(1, 1), Num(2, 1)>>)>> : frozen \in BOOLEAN}

SweepValues ==
  {Num(1, 1), Str("s"), Null, Undefined} \cup {Ref(id) : id \in 1..3}

SweepArguments ==
  UNION {[1..n -> SweepValues] : n \in 0..MaxRecords}

SweepInit ==
  /\ StartCalculator({Intent("add", <<6, 3>>)}, {Undefined})
  /\ sweep \in {[pc |-> "idle", heap |-> h, before |-> h, elems |-> a,
                  threw |-> FALSE] : h \in SweepHeaps, a \in SweepArguments}
  /\ ui = NoPage
  /\ dom = NoTracker

\* await secureCleanup(elems)
SweepRun ==
  /\ sweep.pc = "idle"
  /\ LET sw == SweptHeap(sweep.heap, sweep.elems)
     IN  sweep' = [sweep EXCEPT !.pc = "done", !.heap = sw.heap,
                                !.threw = sw.threw]
  /\ UNCHANGED <<variant, intent, intentFrozen, given, inst, calls, storage,
                 reads, handleCount, tails, accesses, compliance, ui, dom, now>>

SweepNext == SweepRun

SweepSpec == SweepInit /\ [][SweepNext]_vars

\* The web calculator with a tracker the page fills; the elements start
\* attached or detached.
DomInit ==
  /\ StartCalculator({Intent("add", <<6, 3>>)}, {Undefined})
  /\ variant = "web"
  /\ sweep = NoSweep
  /\ ui = NoPage
  /\ dom \in {[NoTracker EXCEPT !.parentNode = p] : p \in DomParents}

DomNext ==
  \/ \E element \in Elements : TrackerAddElement(element)
  \/ \E entry \in ListenerEntries : TrackerAddEventListener(entry)
  \/ TrackerCleanup
  \/ \E i \in MainInsts : Manifest(i, 0)
  \/ \E i \in MainInsts, k \in DissolveIds : DissolveCall(i, k)
  \/ \E i \in MainInsts : TimerFire(i)
  \/ \E i \in MainInsts, k \in DissolveIds : DissolveResume(i, k)
  \/ Tick

DomSpec == DomInit /\ [][DomNext]_vars

\* The page of the web example, from initializeApp on.
PageInit ==
  /\ StartCalculator({Intent("add", <<0, 0>>)}, {Prefs(TRUE, 1)})
  /\ variant = "web"
  /\ sweep = NoSweep
  /\ ui = LoadedPage
  /\ dom = NoTracker

PageNext ==
  \/ PageManifest
  \/ PageDissolve
  \/ PageSubmit
  \/ \E c \in PageCalcs : PageAutoDissolve(c)
  \/ \E c \in PageCalcs : PageCalcTimer(c)
  \/ \E c \in PageCalcs : PageInterval(c)
  \/ PageHidden
  \/ PageTick

PageSpec == PageInit /\ [][PageNext]_vars

\* The browser runs every timeout and interval callback that is due and time
\* passes; the user need not click.
PageFairSpec ==
  /\ PageSpec
  /\ \A c \in PageCalcs :
       /\ WF_vars(PageAutoDissolve(c))
       /\ WF_vars(PageCalcTimer(c))
       /\ WF_vars(PageInterval(c))
  /\ WF_vars(PageHidden)
  /\ WF_vars(PageTick)

\* The calculator together with the static compliance check of its class.
ScanInit == Start({Intent("add", <<6, 3>>)}, {Undefined})

ScanNext == Next \/ Validate

ScanSpec == ScanInit /\ [][ScanNext]_vars

\* The registered operations applied, through execute(), to every operand
\* sequence of at most MaxLen integers of magnitude at most MaxOperand.
OperandSeqs ==
  UNION {[1..n -> (0 - MaxOperand)..MaxOperand] : n \in 0..MaxLen}

ArithInit ==
  Start({Intent(o, s) : o \in OwnOperations, s \in OperandSeqs}, InputStorage)

ArithNext ==
  \/ \E i \in MainInsts : Manifest(i, 0)
  \/ \E i \in MainInsts, c \in CallIds : ExecuteCall(i, c)
  \/ \E c \in CallIds : ExecuteResume(c, "ok")

ArithSpec == ArithInit /\ [][ArithNext]_vars

(* ---------------------------------------------------------------- claims *)
Registry(i) == inst[i].sensitiveData
DissolveDone(i) == \E k \in DissolveIds : inst[i].dcalls[k].pc = "done"
ExplicitDissolveCalled(i) == \E k \in DissolveIds : k # 0 /\ inst[i].dcalls[k].pc # "idle"
\* The execute() calls on i that returned a CalculationResult.
ReturnedCalls(i) ==
  {c \in CallIds : calls[c].pc = "done" /\ calls[c].inst = i /\ calls[c].outcome # "thrown"}
ZeroAfterFirst(ops) == \E k \in 2..Len(ops) : ops[k] = 0
DivisionByZero == Msg("Division by zero", "")

\* C1: in every reachable state in which a dissolve() of an instance has
\* completed, its three registry slots are null, whatever the interleaving of
\* execute() continuations with the dissolve().
C1_DissolvedRegistryNull ==
  \A i \in InstIds : DissolveDone(i) => Registry(i) = AllNull

\* C2: when execute() has returned (a value or an error) before any dissolve
\* began and a dissolve() then completes, the registry reads all-null and
\* isActive() is false, for every operation name and operand sequence.
C2_ExecuteThenDissolveSanitizes ==
  \A i \in InstIds :
    ( /\ DissolveDone(i)
      /\ ReturnedCalls(i) # {}
      /\ \A c \in ReturnedCalls(i) : calls[c].ranActive )
    => (Registry(i) = AllNull /\ ~inst[i].active)

C2_Witness ==
  \E i \in InstIds, c1, c2 \in CallIds :
    /\ DissolveDone(i)
    /\ {c1, c2} \subseteq ReturnedCalls(i)
    /\ calls[c1].ranActive /\ calls[c2].ranActive
    /\ calls[c1].outcome = "value" /\ calls[c2].outcome = "error"

\* C3: an execute() on an instance that is not Active fails with the thrown
\* 'dissolved' error, reads nothing from the broker and changes neither the
\* instance (lifecycle, registry) nor the intent.
C3_ExecuteOnDissolvedThrows ==
  [][\A c \in CallIds :
       (calls[c].pc = "idle" /\ calls'[c].pc # "idle" /\ ~inst[calls'[c].inst].active)
       => /\ calls'[c].pc = "done"
          /\ calls'[c].outcome = "thrown"
          /\ calls'[c].error = Msg("Calculator has been dissolved", "")
          /\ calls'[c].value = Undefined
          /\ reads' = reads
          /\ inst' = inst
          /\ intent' = intent]_vars

C3_Witness ==
  \E c \in CallIds :
    /\ calls[c].pc = "done" /\ calls[c].outcome = "thrown"
    /\ inst[calls[c].inst].timer \in {"fired", "cancelled"}

\* C4: once isActive() is false for an instance it is false forever, whatever
\* execute(), dissolve() and timer events follow.
C4_DissolvedIsTerminal ==
  [][\A i \in InstIds : (inst[i].live /\ ~inst[i].active) => ~inst'[i].active]_vars

C4_Witness ==
  \E i \in InstIds :
    /\ inst[i].live /\ ~inst[i].active
    /\ \A k \in DissolveIds : inst[i].dcalls[k].pc = "done"
    /\ \E c \in CallIds : calls[c].inst = i /\ calls[c].outcome = "thrown"

\* C5: a dissolve() on an instance on which a dissolve() was already called is
\* a no-op: lifecycle state, registry and intent are unchanged, no sweeper
\* call, timer cancel or DOM cleanup takes place, and it completes at once
\* without error.
C5_SecondDissolveIsNoOp ==
  [][\A i \in InstIds, k \in DissolveIds :
       ( /\ inst[i].dcalls[k].pc = "idle" /\ inst'[i].dcalls[k].pc # "idle"
         /\ \E j \in DissolveIds : inst[i].dcalls[j].pc # "idle" )
       => /\ inst'[i].active = inst[i].active
          /\ inst'[i].sensitiveData = inst[i].sensitiveData
          /\ inst'[i].sweeps = inst[i].sweeps
          /\ inst'[i].cancels = inst[i].cancels
          /\ inst'[i].domCleanups = inst[i].domCleanups
          /\ intent' = intent
          /\ inst'[i].dcalls[k].outcome = "resolved"]_vars

\* C6: an instance that is never explicitly dissolved is Active at every time
\* before maxLifetime has elapsed since manifestation; the timer fires no
\* earlier than that whatever execute() calls were made, and when it fires
\* the instance is not Active and its registry is all-null; with a fair event
\* loop every manifested instance is eventually dissolved.
C6_TimerDissolvesAtDeadline ==
  /\ [](\A i \in InstIds :
          ( /\ inst[i].live /\ ~ExplicitDissolveCalled(i)
            /\ now < inst[i].manifestedAt + inst[i].maxLifetime )
          => inst[i].active)
  /\ [][\A i \in InstIds :
          (inst[i].timer = "pending" /\ inst'[i].timer = "fired")
          => /\ now >= inst[i].manifestedAt + inst[i].maxLifetime
             /\ ~inst'[i].active
             /\ inst'[i].sensitiveData = AllNull]_vars
  /\ \A i \in MainInsts : inst[i].live ~> (~inst[i].active /\ DissolveDone(i))

C6_Witness ==
  \E i \in InstIds :
    /\ inst[i].timer = "fired" /\ ~inst[i].active /\ ~ExplicitDissolveCalled(i)
    /\ now = inst[i].manifestedAt + inst[i].maxLifetime
    /\ Cardinality(ReturnedCalls(i)) = MaxCalls

C8_UnknownOperationReported ==
  \A c \in CallIds :
    ( /\ calls[c].pc = "done" /\ calls[c].read = "ok" /\ calls[c].ranActive
      /\ given.operation.s \notin {"add", "subtract", "multiply", "divide"} )
    => /\ calls[c].outcome = "error"
       /\ calls[c].error = Msg("Unknown operation: ", given.operation.s)
       /\ calls[c].value = Undefined

\* C9: an execute() of a divide with a zero among the non-first operands, run
\* on an Active instance with a successful read, returns the error
\* 'Division by zero' and no value, is never a thrown failure, and leaves the
\* instance Active.
C9_DivisionByZeroIsAResult ==
  [][\A c \in CallIds :
       ( /\ calls[c].pc = "awaitRead" /\ calls'[c].pc = "done"
         /\ calls'[c].read = "ok"
         /\ inst[calls[c].inst].active
         /\ given.operation = Str("divide")
         /\ ZeroAfterFirst(given.operands.items) )
       => /\ calls'[c].outcome = "error"
          /\ calls'[c].error = Msg("Division by zero", "")
          /\ calls'[c].value = Undefined
          /\ inst'[calls[c].inst].active]_vars

\* Two successive execute() calls both answered 'Division by zero' on an
\* instance that is still Active, the zero being in the middle of the operands.
C9_Witness ==
  \E i \in InstIds :
    /\ inst[i].active
    /\ given.operands = Arr(<<4, 0, 2>>)
    /\ \A c \in CallIds :
         /\ calls[c].pc = "done" /\ calls[c].inst = i
         /\ calls[c].outcome = "error" /\ calls[c].error = DivisionByZero

\* C10: the caller's TaskIntent is never changed: its operation, its operands
\* and its mutability stay what they were when it was passed to manifest.
C10_IntentUntouched == intent = given /\ ~intentFrozen

(* ------------------------------------------------------------- isolation *)
\* What an execute() started now on instance j would return once its read
\* has settled with the stored preferences.
ExecuteWouldReturn(j) ==
  IF ExecuteRejects(inst[j].active) THEN Thrown(DissolvedMsg)
  ELSE LET key == KeyOf(intent.operation)
       IN  IF key \notin OwnOperations \cup InheritedOperations
           THEN Thrown(Msg("Unknown operation: ", key))
           ELSE ApplyOperation(key, intent.operands, PreferencesOr(storage))

\* The step is an execute(), a dissolve() or a timer expiry of instance i.
OperationOn(i) ==
  /\ inst[i].live
  /\ \/ inst'[i] # inst[i]
     \/ \E c \in CallIds : calls'[c] # calls[c] /\ calls'[c].inst = i

\* C11: an execute(), dissolve() or timer expiry on one instance leaves every
\* other instance's lifecycle state, registry and timer as they were, and
\* leaves unchanged what a later execute() on the other instance returns.
C11_InstancesIsolated ==
  [][\A i \in InstIds : \A j \in InstIds \ {i} :
       (OperationOn(i) /\ inst[j].live) =>
          (inst'[j] = inst[j] /\ ExecuteWouldReturn(j)' = ExecuteWouldReturn(j))]_vars

(* ---------------------------------------------------------------- broker *)
\* The step starts an execute() that passed the Active check (call c).
ExecuteStarts(c) == calls[c].pc = "idle" /\ calls'[c].pc = "awaitRead"
\* The step is the return of execute() call c.
ExecuteReturns(c) == calls[c].pc = "awaitRead" /\ calls'[c].pc = "done"

\* C12: an execute() on an Active instance makes one broker access, a read at
\* '/preferences/calculator', when it starts and none when it resumes; the
\* broker's store is the same after each of its steps as before, whatever the
\* outcome.
C12_ExecuteReadsOnceAndWritesNothing ==
  [][\A c \in CallIds :
       /\ ExecuteStarts(c) =>
            /\ reads' = reads + 1
            /\ accesses' = accesses + 1
            /\ calls'[c].path = Str("/preferences/calculator")
            /\ storage' = storage
       /\ ExecuteReturns(c) =>
            /\ reads' = reads
            /\ accesses' = accesses
            /\ storage' = storage]_vars

\* An execute() returned a value and another an error, the store holding an
\* entry, and the broker has had no access but their two reads.
C12_Witness ==
  /\ storage # Undefined
  /\ reads = 2 /\ accesses = 2
  /\ \E c, d \in CallIds :
       /\ calls[c].pc = "done" /\ calls[c].ranActive /\ calls[c].outcome = "value"
       /\ calls[d].pc = "done" /\ calls[d].ranActive /\ calls[d].outcome = "error"

\* C13: at the step at which an awaited execute() returns, the broker's
\* activeHandles() is 0.
C13_HandlesReleasedAtReturn ==
  [][\A c \in CallIds : ExecuteReturns(c) => handleCount' = 0]_vars

\* C14: activeHandles() always equals the number of accesses whose deferred
\* decrement has not run; it is never negative, it is 0 when none is pending,
\* and whenever it is positive it eventually returns to 0.
C14_HandleCountIsPendingTails ==
  /\ [](handleCount = tails /\ handleCount >= 0 /\ tails <= accesses)
  /\ ((handleCount > 0) ~> (handleCount = 0))

\* Every execute() and every access the caller makes has been made, and the
\* count is back at 0.
C14_Witness ==
  /\ accesses = MaxCalls + MaxAccesses
  /\ reads = MaxCalls
  /\ handleCount = 0

\* The execute() calls that ran on the Active instance i with a read that
\* succeeded.
CompletedCalls(i) ==
  {c \in ReturnedCalls(i) : calls[c].ranActive /\ calls[c].read = "ok"}

\* C15: an execute() whose read finds no entry returns what an execute() on
\* the same instance returns whose read finds the stored preferences {}; its
\* only errors are those of the operation itself, and 10 / 4 comes back as 5/2,
\* unrounded.
C15_MissingPreferencesAreEmpty ==
  \A i \in InstIds : \A c \in CompletedCalls(i) :
    calls[c].readVal = Undefined =>
      /\ \A d \in CompletedCalls(i) :
           calls[d].readVal = EmptyPrefs =>
             /\ calls[c].outcome = calls[d].outcome
             /\ calls[c].value = calls[d].value
             /\ calls[c].error = calls[d].error
      /\ calls[c].outcome = "error" => calls[c].error = DivisionByZero
      /\ given.operands = Arr(<<10, 4>>) =>
           (calls[c].outcome = "value" /\ calls[c].value = Num(5, 2))

\* 10 / 4 executed once with no entry and once with the entry {}.
C15_Witness ==
  /\ given.operands = Arr(<<10, 4>>)
  /\ \E i \in InstIds : \E c, d \in CompletedCalls(i) :
       calls[c].readVal = Undefined /\ calls[d].readVal = EmptyPrefs

\* C16: two execute() calls on the same Active instance whose reads found the
\* same stored preferences return the same value or the same error, and the
\* same operation; an execute() that returns leaves the instance Active, and
\* an execute() on an Active instance is not refused.
C16_RepeatedExecuteSameResult ==
  /\ [](\A i \in InstIds : \A c, d \in CompletedCalls(i) :
          calls[c].readVal = calls[d].readVal =>
            /\ calls[c].outcome = calls[d].outcome
            /\ calls[c].value = calls[d].value
            /\ calls[c].error = calls[d].error
            /\ calls[c].operation = calls[d].operation)
  /\ [][\A c \in CallIds :
          /\ (ExecuteReturns(c) /\ inst[calls[c].inst].active)
               => inst'[calls[c].inst].active
          /\ (calls[c].pc = "idle" /\ calls'[c].pc # "idle"
                /\ inst[calls'[c].inst].active)
               => calls'[c].pc = "awaitRead"]_vars

\* Two execute() calls returned 3 (10 / 4 at precision 0) and the instance is
\* still Active.
C16_Witness ==
  \E i \in InstIds :
    /\ inst[i].active
    /\ \E c, d \in CompletedCalls(i) :
         /\ c # d
         /\ calls[c].readVal = Prefs(TRUE, 0) /\ calls[d].readVal = Prefs(TRUE, 0)
         /\ calls[c].value = Num(3, 1) /\ calls[d].value = Num(3, 1)

(* --------------------------------------------------------------- results *)
\* C17: every CalculationResult returned by execute() has exactly one of
\* value and error set, and its operation field is the operation name of the
\* intent the instance was manifested from.
C17_ResultWellFormed ==
  \A i \in InstIds : \A c \in ReturnedCalls(i) :
    /\ (calls[c].value # Undefined) # (calls[c].error # NoMsg)
    /\ calls[c].operation = given.operation

\* C18: manifest yields an Active instance, its timer armed, whose maxLifetime
\* is options.maxLifetime when that is positive and 30000 when there is no
\* option, and whose purpose is the intent's operation name.
C18_ManifestDefaults ==
  /\ [](\A i \in InstIds : inst[i].live =>
          /\ inst[i].options > 0 => inst[i].maxLifetime = inst[i].options
          /\ inst[i].options = 0 => inst[i].maxLifetime = 30000
          /\ inst[i].purpose = given.operation)
  /\ [][\A i \in InstIds : (~inst[i].live /\ inst'[i].live) =>
          (inst'[i].active /\ inst'[i].timer = "pending")]_vars

\* An instance manifested with options.maxLifetime = MaxTime, still Active.
C18_Witness ==
  \E i \in InstIds :
    /\ inst[i].active
    /\ inst[i].options = MaxTime /\ inst[i].maxLifetime = MaxTime
    /\ inst[i].purpose = Str("divide")

(* ------------------------------------------------------------ arithmetic *)
\* The sum and the product of the operands at the indices in S, whatever the
\* order they are taken in.
RECURSIVE SumOver(_, _)
SumOver(ops, S) ==
  IF S = {} THEN 0
  ELSE LET k == CHOOSE x \in S : TRUE IN ops[k] + SumOver(ops, S \ {k})

RECURSIVE ProductOver(_, _)
ProductOver(ops, S) ==
  IF S = {} THEN 1
  ELSE LET k == CHOOSE x \in S : TRUE IN ops[k] * ProductOver(ops, S \ {k})

\* Every rearrangement of a sequence.
PermutationsOf(ops) ==
  LET n == Len(ops)
      P == {p \in [1..n -> 1..n] : \A a, b \in 1..n : p[a] = p[b] => a = b}
  IN  {[k \in 1..n |-> ops[p[k]]] : p \in P}

\* C19: for add (multiply), execute() returns the sum (the product) of all the
\* operands, and the operation gives that same number on every permutation of
\* them.
C19_AddMultiplyOrderFree ==
  \A i \in InstIds : \A c \in CompletedCalls(i) :
    LET ops == given.operands.items
        prefs == PreferencesOr(calls[c].readVal)
    IN  /\ given.operation = Str("add") =>
             /\ calls[c].outcome = "value"
             /\ calls[c].value = Num(SumOver(ops, DOMAIN ops), 1)
             /\ \A q \in PermutationsOf(ops) :
                  performAddition(q, prefs) = Returned(calls[c].value)
        /\ given.operation = Str("multiply") =>
             /\ calls[c].outcome = "value"
             /\ calls[c].value = Num(ProductOver(ops, DOMAIN ops), 1)
             /\ \A q \in PermutationsOf(ops) :
                  performMultiplication(q, prefs) = Returned(calls[c].value)

\* 1 * 2 * (-2) executed, and 1 + 2 + (-2) likewise in another behaviour.
C19_Witness ==
  /\ given.operands = Arr(<<1, 2, 0 - 2>>)
  /\ \E i \in InstIds : \E c \in CompletedCalls(i) :
       \/ given.operation = Str("multiply") /\ calls[c].value = Num(0 - 4, 1)
       \/ given.operation = Str("add") /\ calls[c].value = Num(1, 1)

\* o1 - o2 - ... - on and ((o1 / o2) / ...) / on, taken from the left.
RECURSIVE DifferenceOfFirst(_, _)
DifferenceOfFirst(ops, n) ==
  IF n = 1 THEN ops[1] ELSE DifferenceOfFirst(ops, n - 1) - ops[n]

RECURSIVE QuotientOfFirst(_, _)
QuotientOfFirst(ops, n) ==
  IF n = 1 THEN Num(ops[1], 1)
  ELSE LET q == QuotientOfFirst(ops, n - 1) IN Norm(q.n, q.d * ops[n])

\* C20: on a sequence of at least one operand, subtract returns the left
\* fold of the differences, and divide, with no precision preference and no
\* zero after the first operand, the left fold of the quotients; a single
\* operand is returned as it is.
C20_SubtractDivideLeftFold ==
  \A i \in InstIds : \A c \in CompletedCalls(i) :
    LET ops == given.operands.items
        prefs == PreferencesOr(calls[c].readVal)
    IN  Len(ops) >= 1 =>
          /\ given.operation = Str("subtract") =>
               /\ calls[c].outcome = "value"
               /\ calls[c].value = Num(DifferenceOfFirst(ops, Len(ops)), 1)
               /\ Len(ops) = 1 => calls[c].value = Num(ops[1], 1)
          /\ ( /\ given.operation = Str("divide")
               /\ ~prefs.hasPrecision
               /\ ~ZeroAfterFirst(ops) ) =>
               /\ calls[c].outcome = "value"
               /\ calls[c].value = QuotientOfFirst(ops, Len(ops))
               /\ Len(ops) = 1 => calls[c].value = Num(ops[1], 1)

\* 0 / 2 / (-1) executed with no precision preference, and 2 - (-1) - 1
\* likewise in another behaviour.
C20_Witness ==
  \E i \in InstIds : \E c \in CompletedCalls(i) :
    /\ calls[c].readVal = Undefined
    /\ \/ /\ given = Intent("divide", <<0, 2, 0 - 1>>)
          /\ calls[c].value = Num(0, 1)
       \/ /\ given = Intent("subtract", <<2, 0 - 1, 1>>)
          /\ calls[c].value = Num(2, 1)

(* -------------------------------------------------------------- rounding *)
\* The quotient n/d rounded to p decimal digits, a tie going away from zero.
RoundHalfAway(q, p) ==
  LET m == Abs(q.n) * Pow10(p)
      r == (2 * m + q.d) \div (2 * q.d)
  IN  Norm(IF q.n < 0 THEN 0 - r ELSE r, Pow10(p))

\* C21: with preferences.precision = p defined, divide returns the exact
\* quotient rounded to p decimal digits, ties half away from zero, for
\* positive and negative quotients alike.
C21_RoundsHalfAwayFromZero ==
  \A i \in InstIds : \A c \in CompletedCalls(i) :
    LET ops == given.operands.items
        prefs == PreferencesOr(calls[c].readVal)
    IN  ( /\ given.operation = Str("divide")
          /\ Len(ops) >= 1
          /\ ~ZeroAfterFirst(ops)
          /\ prefs.hasPrecision ) =>
          /\ calls[c].outcome = "value"
          /\ calls[c].value =
               RoundHalfAway(QuotientOfFirst(ops, Len(ops)), prefs.precision)

(* ------------------------------------------------------- compliance scan *)
\* C22: the compliance check of the shipped class finds no violation and
\* reports all five compliance flags true.
C22_ScanReportsCompliance ==
  compliance # Undefined =>
    compliance = [isEphemeral |-> TRUE, respectsUserDataOwnership |-> TRUE,
                  hasZeroAttentionArchitecture |-> TRUE,
                  preventsContagion |-> TRUE,
                  enablesCompleteDissolusion |-> TRUE, violations |-> <<>>]

(* ----------------------------------------------------- dissolve atomicity *)
\* A dissolve() of instance i has begun and not yet replaced the registry.
Dissolving(i) == \E k \in DissolveIds : inst[i].dcalls[k].pc = "awaitSweep"

\* The step completes a dissolve() of instance i that had begun.
DissolveCompletes(i) ==
  \E k \in DissolveIds :
    inst[i].dcalls[k].pc = "awaitSweep" /\ inst'[i].dcalls[k].pc = "done"

\* C23: from the moment a dissolve() has made the instance leave Active until
\* it has replaced the registry, no other step modifies the instance and no
\* in-flight execute() on it resumes: the only step that touches it is that
\* dissolve()'s own completion.
C23_DissolveRunsToCompletion ==
  [][\A i \in InstIds :
       Dissolving(i) =>
         \/ DissolveCompletes(i)
         \/ /\ inst'[i] = inst[i]
            /\ \A c \in CallIds :
                 (calls[c].inst = i /\ calls[c].pc = "awaitRead") =>
                    calls'[c] = calls[c]]_vars

\* C24: every dissolve() that has ended, the caller's or the timer's, ended
\* without throwing or rejecting, and the registry had then been replaced by
\* all-null slots.
C24_DissolveAlwaysSucceeds ==
  /\ [](\A i \in InstIds, k \in DissolveIds :
          inst[i].dcalls[k].pc = "done" => inst[i].dcalls[k].outcome = "resolved")
  /\ [][\A i \in InstIds : DissolveCompletes(i) =>
          inst'[i].sensitiveData = AllNull]_vars

(* ----------------------------------------------------------------- timer *)
\* C25: the timer of an instance is pending exactly while the instance is
\* Active; it becomes pending only at manifest, an explicit dissolve() of an
\* instance whose timer is pending cancels it, and a timer that was cancelled
\* or has fired stays so.
C25_TimerPendingIffActive ==
  /\ [](\A i \in InstIds : inst[i].live =>
          (inst[i].active <=> inst[i].timer = "pending"))
  /\ [][\A i \in InstIds :
          /\ (inst[i].timer # "pending" /\ inst'[i].timer = "pending")
               => (~inst[i].live /\ inst'[i].live)
          /\ ( /\ inst[i].timer = "pending"
               /\ \E k \in DissolveIds \ {0} :
                    inst[i].dcalls[k].pc = "idle" /\ inst'[i].dcalls[k].pc # "idle" )
               => inst'[i].timer = "cancelled"
          /\ inst[i].timer \in {"cancelled", "fired"}
               => inst'[i].timer = inst[i].timer]_vars

\* An instance dissolved by the caller when its deadline had come and its
\* timer was still pending: the timer is cancelled and did not fire.
C25_Witness ==
  \E i \in InstIds :
    /\ inst[i].live /\ ~inst[i].active
    /\ inst[i].timer = "cancelled"
    /\ inst[i].dcalls[0].pc = "idle"
    /\ now >= inst[i].manifestedAt + inst[i].maxLifetime

(* -------------------------------------------------------------- registry *)
\* C26: hasResidualData() is true exactly when at least one registry slot is
\* non-null.
C26_ResidualDataReported ==
  \A i \in InstIds : inst[i].live =>
    (hasResidualData(Registry(i)) <=> Registry(i) # AllNull)

\* The preferences an execute() works with after a read that found entry v.
ReadAs(v) == IF v = Undefined THEN EmptyPrefs ELSE v

\* The step is the return of a value from execute() call c on an instance
\* that is Active and on which no dissolve() was ever begun.
ReturnsValue(c) ==
  /\ ExecuteReturns(c)
  /\ calls'[c].outcome = "value"
  /\ inst[calls[c].inst].active
  /\ \A k \in DissolveIds : inst[calls[c].inst].dcalls[k].pc = "idle"

\* C27: when an execute() returns a value on an Active instance, the registry
\* then holds the intent's operands, the returned value and the preferences
\* that call read, whatever an earlier execute() had stored.
C27_RegistryHoldsLastExecute ==
  [][\A c \in CallIds :
       ReturnsValue(c) =>
         Registry(calls[c].inst)' =
           [operands |-> given.operands, result |-> calls'[c].value,
            userPreferences |-> ReadAs(calls[c].readVal)]]_vars

\* 10 / 4 was executed at precision 0 and then, after the caller replaced the
\* entry by {}, again: the registry holds 5/2 and {}.
C27_Witness ==
  \E i \in InstIds : \E c, d \in CompletedCalls(i) :
    /\ inst[i].active
    /\ calls[c].value = Num(3, 1) /\ calls[d].value = Num(5, 2)
    /\ Registry(i) = [operands |-> Arr(<<10, 4>>), result |-> Num(5, 2),
                      userPreferences |-> EmptyPrefs]

\* C28: an execute() that returns an error result leaves the three registry
\* slots as they were, and the slots are all null until an execute() has
\* returned a value.
C28_OnlySuccessWritesRegistry ==
  /\ [][\A c \in CallIds :
          (ExecuteReturns(c) /\ calls'[c].outcome = "error"
            /\ inst[calls[c].inst].active)
          => Registry(calls[c].inst)' = Registry(calls[c].inst)]_vars
  /\ [](\A i \in InstIds :
          (inst[i].live /\ \A c \in ReturnedCalls(i) : calls[c].outcome # "value")
          => Registry(i) = AllNull)

(* --------------------------------------------------- overlapping executes *)
\* C29: of execute() calls that overlap on an Active instance, each one
\* returns: its result is the one its own read determines (10 / 4 is 3 at
\* precision 0 and 5/2 without precision), its return leaves the other calls
\* as they are, and the registry then holds the returning call's data, so
\* that the continuation that ran last has the last word.
C29_OverlappingExecutesIndependent ==
  /\ \A c \in CallIds : (calls[c].pc = "awaitRead") ~> (calls[c].pc = "done")
  /\ [][\A c \in CallIds :
          ExecuteReturns(c) =>
            /\ \A d \in CallIds \ {c} : calls'[d] = calls[d]
            /\ calls'[c].outcome = "value"
            /\ calls'[c].value =
                 (IF ReadAs(calls[c].readVal).hasPrecision
                  THEN Num(3, 1) ELSE Num(5, 2))
            /\ Registry(calls[c].inst)' =
                 [operands |-> given.operands, result |-> calls'[c].value,
                  userPreferences |-> ReadAs(calls[c].readVal)]]_vars

\* The first call read no entry, the second, started while the first was
\* suspended, read precision 0 and returned first: the registry holds the
\* first call's 5/2 and {}.
C29_Witness ==
  /\ calls[1].pc = "done" /\ calls[2].pc = "done"
  /\ calls[1].readVal = Undefined /\ calls[2].readVal = Prefs(TRUE, 0)
  /\ calls[1].value = Num(5, 2) /\ calls[2].value = Num(3, 1)
  /\ Registry(1) = [operands |-> Arr(<<10, 4>>), result |-> Num(5, 2),
                    userPreferences |-> EmptyPrefs]

(* ------------------------------------------------ preferences and results *)
\* Two preferences records ask for the same precision: both for none, or both
\* for the same number of digits.
SamePrecision(a, b) ==
  /\ a.hasPrecision = b.hasPrecision
  /\ a.hasPrecision => a.precision = b.precision

\* C30: two execute() calls on the same instance return the same result
\* whatever preferences each of them read when the operation is add, subtract
\* or multiply, and when it is divide and the two records agree on precision;
\* the roundingMode of the records makes no difference.
C30_OnlyPrecisionOfDivideMatters ==
  \A i \in InstIds : \A c, d \in CompletedCalls(i) :
    (\/ KeyOf(given.operation) \in {"add", "subtract", "multiply"}
     \/ /\ KeyOf(given.operation) = "divide"
        /\ SamePrecision(ReadAs(calls[c].readVal), ReadAs(calls[d].readVal)))
      => /\ calls[c].outcome = calls[d].outcome
         /\ calls[c].value = calls[d].value
         /\ calls[c].error = calls[d].error

\* 10 / 4 executed at precision 0 once with roundingMode 'round' and once with
\* 'floor': both calls returned 3.
C30_Witness ==
  /\ KeyOf(given.operation) = "divide"
  /\ \E i \in InstIds : \E c, d \in CompletedCalls(i) :
       /\ calls[c].readVal = PrefsWith(TRUE, 0, "round")
       /\ calls[d].readVal = PrefsWith(TRUE, 0, "floor")
       /\ calls[c].value = Num(3, 1) /\ calls[d].value = Num(3, 1)

(* ------------------------------------------------------- cleanup sweeper *)
\* The objects the sweeper was given directly.
GivenObjects == {sweep.elems[k].id : k \in {j \in DOMAIN sweep.elems : IsObject(sweep.elems[j])}}

\* C31: after the sweeper has run, every record it was given has the keys it
\* had before, each of them null, and every object it was not given itself,
\* the value of a swept field included, is as it was.
C31_SweepNullsEveryFieldShallowly ==
  sweep.pc = "done" =>
    /\ \A id \in GivenObjects :
         sweep.heap[id].kind = "record" =>
           /\ DOMAIN sweep.heap[id].fields = DOMAIN sweep.before[id].fields
           /\ \A key \in DOMAIN sweep.heap[id].fields :
                sweep.heap[id].fields[key] = Null
    /\ \A id \in DOMAIN sweep.heap \ GivenObjects :
         sweep.heap[id] = sweep.before[id]

\* C32: after the sweeper has run, every array it was given directly is as it
\* was before, its elements included.
C32_SweepLeavesArraysAlone ==
  sweep.pc = "done" =>
    \A id \in GivenObjects :
      sweep.heap[id].kind = "array" => sweep.heap[id] = sweep.before[id]

(* --------------------------------------------------- DOM cleanup tracker *)
\* The step runs the tracker's cleanup().
CleanupRuns == dom'.cleanups = dom.cleanups + 1

\* C37: a cleanup() leaves no listener on its target that was registered
\* through the tracker, leaves every tracked element without a parent and
\* leaves the tracker empty; a cleanup() of a tracker that was cleaned up and
\* had nothing added since changes nothing in the DOM; and dissolve() runs the
\* cleanup() at most once for an instance.
C37_CleanupRemovesAllOnce ==
  /\ [][CleanupRuns =>
          /\ \A k \in DOMAIN dom.listenersToRemove :
               dom.listenersToRemove[k] \notin dom'.listeners
          /\ \A element \in dom.elementsToClean :
               dom'.parentNode[element] = NoNode
          /\ dom'.elementsToClean = {} /\ dom'.listenersToRemove = <<>>
          /\ (dom.cleanups > 0 /\ dom.elementsToClean = {}
                /\ dom.listenersToRemove = <<>>)
               => (dom'.parentNode = dom.parentNode
                     /\ dom'.listeners = dom.listeners)]_vars
  /\ [](\A i \in InstIds : inst[i].domCleanups <= 1)

\* The instance was dissolved once and a second dissolve() was skipped; two
\* cleanup() calls were made in all, and between them they took both elements
\* from their parents and both listeners from the button.
C37_Witness ==
  /\ inst[1].domCleanups = 1
  /\ dom.cleanups = 2
  /\ inst[1].dcalls[1].noop
  /\ dom.elementsToClean = {} /\ dom.listenersToRemove = <<>>
  /\ dom.detached = Elements
  /\ dom.unregistered = ListenerEntries
  /\ dom.parentNode = [element \in Elements |-> NoNode]
  /\ dom.listeners = {}

(* -------------------------------------------------------------- web page *)
\* The step runs an autoDissolve timeout of the page.
AutoDissolveRuns ==
  ui'.timeouts # ui.timeouts /\ ui'.timeouts \subseteq ui.timeouts

\* C33: a calculator that an autoDissolve timeout of the page dissolves has
\* been manifested for at least its own maxLifetime.
C33_AutoDissolveOnlyAfterOwnLifetime ==
  [][\A c \in PageCalcs :
       (AutoDissolveRuns /\ ui.calcs[c].active /\ ~ui'.calcs[c].active)
         => now >= ui.calcs[c].manifestedAt + ui.calcs[c].maxLifetime]_vars

\* The step replaces the current calculator by a newly manifested one.
ReplacementRuns ==
  /\ ui.currentCalculator # 0
  /\ ui'.currentCalculator # 0
  /\ ui'.currentCalculator # ui.currentCalculator

\* C34: the calculator performCalculation puts in the place of the current
\* one has a maxLifetime of at most the time the current one had left, and
\* its lifetime ends no later than the current one's would have.
C34_ReplacementNeverOutlives ==
  [][ReplacementRuns =>
       LET old == ui.calcs[ui.currentCalculator]
           new == ui'.calcs[ui'.currentCalculator]
       IN  /\ new.maxLifetime <= getRemainingTime(old, now)
           /\ new.manifestedAt + new.maxLifetime
                <= old.manifestedAt + old.maxLifetime]_vars

\* A calculator was manifested on the page and none is Active.
NoneActive ==
  /\ \E c \in PageCalcs : ui.calcs[c].live
  /\ \A c \in PageCalcs : ~ui.calcs[c].active

\* C35: whenever no calculator of the page is Active any more, the status
\* indicator eventually shows 'dissolved' with the calculator hidden.
C35_StatusEventuallyDissolved ==
  NoneActive ~> (ui.status = "dissolved" /\ ~ui.shown)

\* C36: at most one countdown interval is scheduled; while the current
\* calculator is Active a scheduled interval reads that calculator; when no
\* calculator is current and Active none is scheduled.
C36_OneCountdownOfCurrent ==
  /\ Cardinality(ui.intervals) <= 1
  /\ CurrentIsActive(ui) => \A c \in ui.intervals : c = ui.currentCalculator
  /\ ~CurrentIsActive(ui) => ui.intervals = {}

====
